---- MODULE Spec2Model ----
(***************************************************************************)
(* Model of dtformats/chrome_cache.py: SuperFastHash, the cache address    *)
(* codec, the data block and index file readers and                        *)
(* ChromeCacheParser.ParseDirectory.                                       *)
(*                                                                         *)
(* Conventions                                                             *)
(*  - A 32-bit word is a pair <<hi, lo>> of 16-bit halves (value =         *)
(*    hi * 65536 + lo), so that every bit field of the source is computed  *)
(*    on the full 32 bits without leaving the integer range of TLC.       *)
(*  - A Python attribute that may be None is a sequence: <<>> is None and  *)
(*    <<x>> is the value x.                                                *)
(*  - The module is Python 2 code (xrange, ord() of an indexed byte        *)
(*    string); calls on text follow Python 2: unicode.decode(u'ascii')     *)
(*    first encodes the text with the ASCII codec.                         *)
(*  - bytes(cache_entry.key) is the byte string of the 160 key bytes.      *)
(*  - index_table, a dict keyed by the position of a word, is the sequence *)
(*    of its entries by ascending key; that is the order in which a dict   *)
(*    of the small keys of the bounded tables is iterated.                 *)
(*  - The directory is read-only input.  What a file holds is chosen when  *)
(*    the program first looks at the file (os.path.exists) and is kept     *)
(*    unchanged afterwards.                                                *)
(***************************************************************************)
EXTENDS Integers, Sequences, FiniteSets, TLC

VARIABLES
  pc,                          \* position inside ParseDirectory
  result,                      \* "none" while running, then how the call ended
  disk_index,                  \* the file `index` of the directory
  disk_files,                  \* the other files of the directory, by name
  index_table,                 \* IndexFile.index_table, in iteration order
  data_block_files,            \* keys of the dict data_block_files
  have_all_data_block_files,
  open_files,                  \* names of the files whose handle is open
  table_pos,                   \* position of the first loop (open phase)
  slot,                        \* position of the second loop (traversal)
  cache_address,               \* value of the current cache address
  cache_address_chain_length,
  output,                      \* the records printed, in order
  reads,                       \* per slot, the calls of ReadCacheEntry so far
  addr_value,                  \* the value an address is constructed from
  addr_decoded,                \* CacheAddress(addr_value), once constructed
  argument,                    \* the argument of a function called on its own
  returned                     \* what that call returned, once it has

vars == <<pc, result, disk_index, disk_files, index_table, data_block_files,
          have_all_data_block_files, open_files, table_pos, slot,
          cache_address, cache_address_chain_length, output, reads,
          addr_value, addr_decoded, argument, returned>>

----------------------------------------------------------------------------
(* Words, optional values and text formatting                              *)

None == <<>>

Some(x) == <<x>>

Word(hi, lo) == <<hi, lo>>

ZeroWord == Word(0, 0)

HexDigit(d) ==
  CASE d = 0 -> "0" [] d = 1 -> "1" [] d = 2 -> "2" [] d = 3 -> "3"
    [] d = 4 -> "4" [] d = 5 -> "5" [] d = 6 -> "6" [] d = 7 -> "7"
    [] d = 8 -> "8" [] d = 9 -> "9" [] d = 10 -> "a" [] d = 11 -> "b"
    [] d = 12 -> "c" [] d = 13 -> "d" [] d = 14 -> "e" [] d = 15 -> "f"

RECURSIVE Digits(_, _)
\* the digits of n in the given base, most significant first
Digits(n, base) ==
  IF n < base THEN <<n>> ELSE Append(Digits(n \div base, base), n % base)

RECURSIVE Join(_)
Join(digits) ==
  IF digits = <<>> THEN "" ELSE HexDigit(Head(digits)) \o Join(Tail(digits))

RECURSIVE Zeros(_)
Zeros(k) == IF k <= 0 THEN "" ELSE "0" \o Zeros(k - 1)

\* hexadecimal without the zero padding
FormatHexPlain(n) == Join(Digits(n, 16))

\* u'{0:06x}'.format(n): lowercase hexadecimal, zero padded to six digits
FormatHex06(n) ==
  LET digits == Digits(n, 16) IN Zeros(6 - Len(digits)) \o Join(digits)

\* u'{0:d}'.format(n)
FormatDecimal(n) == Join(Digits(n, 10))

----------------------------------------------------------------------------
(* CacheAddress                                                            *)

FILE_TYPE_SEPARATE == 0

BLOCK_DATA_FILE_TYPES == {1, 2, 3, 4}

FILE_TYPE_BLOCK_SIZES == <<0, 36, 256, 1024, 4096>>

\* a plain else: every file type but the separate file is a block file
IsNotSeparateFileType(file_type) == file_type # FILE_TYPE_SEPARATE

\* elif self.file_type in self._BLOCK_DATA_FILE_TYPES
IsBlockDataFileType(file_type) == file_type \in BLOCK_DATA_FILE_TYPES

\* CacheAddress.__init__: the attributes of the object; error is "none",
\* or the exception the constructor raises (an index that is not in the
\* tuple _FILE_TYPE_BLOCK_SIZES)
CacheAddress(value) ==
  LET hi == value[1]
      lo == value[2]
      file_type == (hi \div 4096) % 8
      branch == IF value = ZeroWord THEN "none"
                ELSE IF file_type = FILE_TYPE_SEPARATE THEN "separate"
                ELSE IF IsBlockDataFileType(file_type) THEN "block"
                ELSE "none"
      in_tuple == file_type + 1 <= Len(FILE_TYPE_BLOCK_SIZES)
      is_block == branch = "block" /\ in_tuple
      file_block_size == FILE_TYPE_BLOCK_SIZES[file_type + 1]
  IN  [ error          |-> IF branch = "block" /\ ~in_tuple
                             THEN "IndexError" ELSE "none",
        value          |-> value,
        is_initialized |-> (hi \div 32768) % 2 = 1,
        file_type      |-> file_type,
        filename       |-> IF branch = "separate"
                             THEN Some("f_" \o
                                    FormatHex06((hi % 4096) * 65536 + lo))
                           ELSE IF branch = "block"
                             THEN Some("data_" \o FormatDecimal(hi % 256))
                           ELSE None,
        block_number   |-> IF is_block THEN Some(lo) ELSE None,
        block_size     |-> IF is_block
                             THEN Some(((hi \div 256) % 4) * file_block_size)
                             ELSE None,
        block_offset   |-> IF is_block
                             THEN Some(8192 + lo * file_block_size)
                             ELSE None ]

\* self.filename of CacheAddress(value)
AddressFilename(value) == CacheAddress(value).filename

----------------------------------------------------------------------------
(* SuperFastHash                                                           *)

\* 2 to the power k
RECURSIVE Power2(_)
Power2(k) == IF k = 0 THEN 1 ELSE 2 * Power2(k - 1)

\* a ^ b on numbers of n bits
RECURSIVE Xor(_, _, _)
Xor(a, b, n) ==
  IF n = 0 THEN 0
  ELSE ((a + b) % 2) + 2 * Xor(a \div 2, b \div 2, n - 1)

\* a ^ b on 32-bit words
Xor32(a, b) == Word(Xor(a[1], b[1], 16), Xor(a[2], b[2], 16))

\* (a + b) & 0xffffffff
Add32(a, b) ==
  Word((a[1] + b[1] + (a[2] + b[2]) \div 65536) % 65536,
       (a[2] + b[2]) % 65536)

\* (a << k) & 0xffffffff
ShiftLeft32(a, k) ==
  IF k < 16
    THEN Word((a[1] * Power2(k) + a[2] \div Power2(16 - k)) % 65536,
              (a[2] * Power2(k)) % 65536)
    ELSE Word((a[2] * Power2(k - 16)) % 65536, 0)

\* a >> k
ShiftRight32(a, k) ==
  IF k < 16
    THEN Word(a[1] \div Power2(k),
              a[2] \div Power2(k) + (a[1] % Power2(k)) * Power2(16 - k))
    ELSE Word(0, a[1] \div Power2(k - 16))

\* hash_value ^= (hash_value << k) & 0xffffffff
XorShift(hash_value, k) == Xor32(hash_value, ShiftLeft32(hash_value, k))

\* hash_value = (hash_value + (hash_value >> k)) & 0xffffffff
AddShift(hash_value, k) == Add32(hash_value, ShiftRight32(hash_value, k))

\* one pass of the for statement, on the four bytes from key_index
\* (counted from 1 here)
HashGroup(hash_value, key, key_index) ==
  LET added == Add32(hash_value,
                     Word(0, key[key_index] + key[key_index + 1] * 256))
      temp_value == Xor32(ShiftLeft32(Word(0, key[key_index + 2]
                                              + key[key_index + 3] * 256), 11),
                          added)
  IN  AddShift(Xor32(ShiftLeft32(added, 16), temp_value), 11)

\* the for statement over the first key_length bytes (a multiple of four)
RECURSIVE HashGroups(_, _, _)
HashGroups(hash_value, key, key_length) ==
  IF key_length = 0 THEN hash_value
  ELSE HashGroup(HashGroups(hash_value, key, key_length - 4), key,
                 key_length - 3)

\* the remainder 1 bytes taken as a pair, as for remainder 2
HashTailPaired(hash_value, key, key_index, remainder) ==
  LET pair == Word(0, key[key_index]
                      + (IF remainder >= 2 THEN key[key_index + 1] * 256
                         ELSE 0))
  IN  IF remainder = 3
        THEN AddShift(Xor32(XorShift(Add32(hash_value, pair), 16),
                            ShiftLeft32(Word(0, key[key_index + 2]), 18)), 11)
      ELSE IF remainder \in {1, 2}
        THEN AddShift(XorShift(Add32(hash_value, pair), 11), 17)
      ELSE hash_value

\* the if statement on the remainder, on the bytes from key_index (counted
\* from 1 here)
HashTail(hash_value, key, key_index, remainder) ==
  IF remainder = 3
    THEN AddShift(
           Xor32(XorShift(Add32(hash_value,
                                Word(0, key[key_index]
                                        + key[key_index + 1] * 256)), 16),
                 ShiftLeft32(Word(0, key[key_index + 2]), 18)), 11)
  ELSE IF remainder = 2
    THEN AddShift(XorShift(Add32(hash_value,
                                 Word(0, key[key_index]
                                         + key[key_index + 1] * 256)), 11), 17)
  ELSE IF remainder = 1
    THEN AddShift(XorShift(Add32(hash_value, Word(0, key[key_index])), 10), 1)
  ELSE hash_value

\* the six last statements
Avalanche(hash_value) ==
  AddShift(XorShift(AddShift(XorShift(AddShift(XorShift(hash_value, 3), 5),
                                      4), 17), 25), 6)

\* SuperFastHash(key), for a key of less than 65536 bytes
SuperFastHash(key) ==
  IF key = <<>> THEN ZeroWord
  ELSE LET remainder == Len(key) % 4
           key_length == Len(key) - remainder
       IN  Avalanche(HashTail(HashGroups(Word(0, Len(key)), key, key_length),
                              key, key_length + 1, remainder))

----------------------------------------------------------------------------
(* The directory: bounded sets the file contents are drawn from            *)

MaxWords == 2

\* the words an index table is made of: zero, data_1 block 0, data_2 block
\* 0 (both 256 byte block files), the separate file f_000001, file type 5
IndexWordSamples ==
  {ZeroWord, Word(40961, 0), Word(40962, 0), Word(32768, 1), Word(53248, 0)}

\* the next_address values of cache entries: zero, data_1 block 0, data_2
\* block 0, file type 5
NextSamples == {ZeroWord, Word(40961, 0), Word(40962, 0), Word(53248, 0)}

KEY_SIZE == 160

\* a 160 byte key buffer that starts with the given bytes, NUL filled
KeyBuffer(prefix) ==
  [i \in 1..KEY_SIZE |-> IF i <= Len(prefix) THEN prefix[i] ELSE 0]

\* "h" and "h\xe9"
KeySamples == {KeyBuffer(<<104>>), KeyBuffer(<<104, 233>>)}

\* creation_time, a uint64 as its 8 bytes, most significant first:
\* 1 and 0x03ada2a314f9a000 (the first microsecond of the year 10000)
TimeSamples ==
  {<<0, 0, 0, 0, 0, 0, 0, 1>>, <<3, 173, 162, 163, 20, 249, 160, 0>>}

DATA_BLOCK_SIGNATURE == Word(49412, 51907)

INDEX_SIGNATURE == Word(49411, 51907)

\* the headers a file may start with: a good one, one with the signature
\* of the other file type, one of version 3.0
HeaderSamples(signature, other) ==
  { [signature |-> signature, major_version |-> 2, minor_version |-> 1],
    [signature |-> other, major_version |-> 2, minor_version |-> 1],
    [signature |-> signature, major_version |-> 3, minor_version |-> 0] }

NoHeader ==
  [signature |-> ZeroWord, major_version |-> 0, minor_version |-> 0]

FileNames ==
  {AddressFilename(w)[1] :
     w \in {x \in IndexWordSamples \cup NextSamples : AddressFilename(x) # None}}

\* the block offsets of a data file that an address of the samples names
BlockOffsets(name) ==
  {CacheAddress(w).block_offset[1] :
     w \in {x \in IndexWordSamples \cup NextSamples :
              /\ AddressFilename(x) = Some(name)
              /\ CacheAddress(x).block_offset # None}}

Unreadable ==
  [readable |-> FALSE, next_address |-> ZeroWord,
   creation_time |-> <<0, 0, 0, 0, 0, 0, 0, 0>>, key |-> KeyBuffer(<<>>)]

\* what a block of a data file holds: a cache entry, or nothing that can be
\* read in full (the file ends before the end of the block)
BlockSamples ==
  {Unreadable} \cup
  [readable : {TRUE}, next_address : NextSamples,
   creation_time : TimeSamples, key : KeySamples]

UnknownFile ==
  [state |-> "unknown", header |-> NoHeader, words |-> <<>>, blocks |-> <<>>]

AbsentFile == [UnknownFile EXCEPT !.state = "absent"]

\* the files `index` may be
IndexFileSamples ==
  {AbsentFile} \cup
  { [state |-> "present", header |-> h, words |-> w, blocks |-> <<>>] :
      h \in HeaderSamples(INDEX_SIGNATURE, DATA_BLOCK_SIGNATURE),
      w \in UNION {[1..n -> IndexWordSamples] : n \in 0..MaxWords} }

\* the files a referenced name may be
DataFileSamples(name) ==
  {AbsentFile} \cup
  { [state |-> "present", header |-> h, words |-> <<>>, blocks |-> b] :
      h \in HeaderSamples(DATA_BLOCK_SIGNATURE, INDEX_SIGNATURE),
      b \in [BlockOffsets(name) -> BlockSamples] }

----------------------------------------------------------------------------
(* DataBlockFile and IndexFile                                             *)

\* u'{0:d}.{1:d}'.format(major_version, minor_version)
FormatVersion(header) ==
  FormatDecimal(header.major_version) \o "." \o
  FormatDecimal(header.minor_version)

\* the version tested before the signature
ReadFileHeaderVersionFirst(header, signature) ==
  IF FormatVersion(header) \notin {"2.0", "2.1"} THEN "UnsupportedVersion"
  ELSE IF header.signature # signature THEN "InvalidSignature"
  ELSE "ok"

\* _ReadFileHeader of both file types: "ok", or the ParseError it raises
ReadFileHeader(header, signature) ==
  IF header.signature # signature THEN "InvalidSignature"
  ELSE IF FormatVersion(header) \notin {"2.0", "2.1"} THEN "UnsupportedVersion"
  ELSE "ok"

\* a header that is not validated
AcceptAnyHeader(header) == "ok"

DataBlockFileReadFileHeader(header) ==
  ReadFileHeader(header, DATA_BLOCK_SIGNATURE)

IndexFileReadFileHeader(header) == ReadFileHeader(header, INDEX_SIGNATURE)

\* byte_string.partition(b'\x00')[0]: the bytes before the first NUL, or
\* all of them when there is no NUL
Partition(byte_string) ==
  LET separators == {i \in 1..Len(byte_string) : byte_string[i] = 0}
  IN  IF separators = {} THEN byte_string
      ELSE SubSeq(byte_string, 1,
                  (CHOOSE i \in separators : \A j \in separators : i <= j) - 1)

\* whether bytes.decode(u'ascii') raises UnicodeDecodeError
DecodeFails(byte_string) ==
  \E i \in 1..Len(byte_string) : byte_string[i] >= 128

REPLACEMENT_CHARACTER == 65533

\* bytes that cannot be decoded are dropped
DecodeIgnore(byte_string) == SelectSeq(byte_string, LAMBDA b : b < 128)

\* bytes.decode(u'ascii', errors=u'replace'), as code points; it is
\* bytes.decode(u'ascii') when that does not raise
DecodeReplace(byte_string) ==
  [i \in 1..Len(byte_string) |->
     IF byte_string[i] < 128 THEN byte_string[i] ELSE REPLACEMENT_CHARACTER]

\* the key ReadCacheEntry stores in the cache entry
CacheEntryKey(key) == DecodeReplace(Partition(key))

\* a key that cannot be decoded raises instead of being replaced
ReadCacheEntryStrict(file, block_offset) ==
  LET failed(e) == [error |-> e, creation_time |-> <<>>, key |-> <<>>,
                    next |-> ZeroWord, replaced |-> FALSE]
  IN  IF block_offset = None THEN failed("TypeError")
      ELSE IF block_offset[1] \notin DOMAIN file.blocks THEN failed("ParseError")
      ELSE LET block == file.blocks[block_offset[1]]
           IN  IF ~block.readable \/ DecodeFails(Partition(block.key))
                 THEN failed("ParseError")
               ELSE [error         |-> "none",
                     creation_time |-> block.creation_time,
                     key           |-> CacheEntryKey(block.key),
                     next          |-> block.next_address,
                     replaced      |-> FALSE]

\* DataBlockFile.ReadCacheEntry on an open file: error is "none", or the
\* exception raised ("TypeError": no block offset to seek to; "ParseError":
\* the structure cannot be read at the offset)
ReadCacheEntry(file, block_offset) ==
  LET failed(e) == [error |-> e, creation_time |-> <<>>, key |-> <<>>,
                    next |-> ZeroWord, replaced |-> FALSE]
  IN  IF block_offset = None THEN failed("TypeError")
      ELSE IF block_offset[1] \notin DOMAIN file.blocks THEN failed("ParseError")
      ELSE LET block == file.blocks[block_offset[1]]
           IN  IF ~block.readable THEN failed("ParseError")
               ELSE [error         |-> "none",
                     creation_time |-> block.creation_time,
                     key           |-> CacheEntryKey(block.key),
                     next          |-> block.next_address,
                     replaced      |-> DecodeFails(Partition(block.key))]

\* IndexFile._ReadIndexTable: the non-zero words with their position
ReadIndexTable(words) ==
  SelectSeq([i \in 1..Len(words) |-> [index |-> i - 1, value |-> words[i]]],
            LAMBDA e : e.value # ZeroWord)

\* the four bytes taken as a big-endian number
MapUint32be(byte_stream) ==
  Word(byte_stream[1] * 256 + byte_stream[2],
       byte_stream[3] * 256 + byte_stream[4])

\* self._UINT32LE.MapByteStream(cache_address_data)
MapUint32le(byte_stream) ==
  Word(byte_stream[4] * 256 + byte_stream[3],
       byte_stream[2] * 256 + byte_stream[1])

\* file_object.read(4) at the given offset of the data: less than four
\* bytes at the end of the data
Read4(data, offset) ==
  SubSeq(data, offset + 1,
         IF offset + 4 <= Len(data) THEN offset + 4 ELSE Len(data))

\* the index counts the table entries only
NextIndexOfEntries(cache_address_index, value) ==
  IF value # ZeroWord THEN cache_address_index + 1 ELSE cache_address_index

\* cache_address_index += 1
NextIndex(cache_address_index, value) == cache_address_index + 1

\* the while statement of _ReadIndexTable from the given offset of the
\* data on: the entries added to index_table, by ascending key
RECURSIVE ReadIndexTableFrom(_, _, _)
ReadIndexTableFrom(data, offset, cache_address_index) ==
  LET cache_address_data == Read4(data, offset)
  IN  IF Len(cache_address_data) # 4 THEN <<>>
      ELSE LET value == MapUint32le(cache_address_data)
           IN  (IF value # ZeroWord
                  THEN <<[index |-> cache_address_index,
                          cache_address |-> CacheAddress(value)]>>
                  ELSE <<>>)
               \o ReadIndexTableFrom(data, offset + 4,
                                     NextIndex(cache_address_index, value))

\* IndexFile.ReadFileObject: the header, the LRU data, the index table;
\* error is "none" or the ParseError raised
IndexFileReadFileObject(file) ==
  LET status == IndexFileReadFileHeader(file.header)
  IN  IF status # "ok" THEN [error |-> status, index_table |-> <<>>]
      ELSE IF ~file.lru_data THEN [error |-> "ParseError", index_table |-> <<>>]
      ELSE [error |-> "none",
            index_table |-> ReadIndexTableFrom(file.data, 0, 0)]

----------------------------------------------------------------------------
(* Dates: datetime.datetime(1601, 1, 1) + datetime.timedelta(microseconds) *)

\* the remainder of the number made of the first i bytes, divided by d
RECURSIVE Remainder(_, _, _)
Remainder(bytes, d, i) ==
  IF i = 0 THEN 0 ELSE (Remainder(bytes, d, i - 1) * 256 + bytes[i]) % d

\* the quotient of the number by d, as bytes
Quotient(bytes, d) ==
  [i \in 1..Len(bytes) |-> (Remainder(bytes, d, i - 1) * 256 + bytes[i]) \div d]

RECURSIVE ToInteger(_)
ToInteger(bytes) ==
  IF bytes = <<>> THEN 0
  ELSE ToInteger(SubSeq(bytes, 1, Len(bytes) - 1)) * 256 + bytes[Len(bytes)]

\* timedelta(microseconds=creation_time), normalized as Python keeps it
TimeDelta(creation_time) ==
  LET seconds == Quotient(creation_time, 1000000)
  IN  [days         |-> ToInteger(Quotient(seconds, 86400)),
       seconds      |-> Remainder(seconds, 86400, Len(seconds)),
       microseconds |-> Remainder(creation_time, 1000000, Len(creation_time))]

\* the days from 1601-01-01 to 9999-12-31, the last day of datetime
MAX_DELTA_DAYS == 3067670

\* whether the addition raises OverflowError (date value out of range)
DateOverflows(creation_time) == TimeDelta(creation_time).days > MAX_DELTA_DAYS

\* the date, as its distance from 1601-01-01T00:00:00
DateString(creation_time) == TimeDelta(creation_time)

----------------------------------------------------------------------------
(* ChromeCacheParser.ParseDirectory                                        *)

Init ==
  /\ pc = "start"
  /\ result = "none"
  /\ disk_index = UnknownFile
  /\ disk_files = [name \in FileNames |-> UnknownFile]
  /\ index_table = <<>>
  /\ data_block_files = {}
  /\ have_all_data_block_files = TRUE
  /\ open_files = {}
  /\ table_pos = 1
  /\ slot = 1
  /\ cache_address = ZeroWord
  /\ cache_address_chain_length = 0
  /\ output = <<>>
  /\ reads = <<>>
  /\ addr_value = ZeroWord
  /\ addr_decoded = None
  /\ argument = None
  /\ returned = None

\* the call ends with an exception (or, for "ok", returns)
End(how) ==
  /\ pc' = "done"
  /\ result' = how

\* the for statement of the traversal takes the value of the given slot
StartSlot(s) ==
  /\ slot' = s
  /\ cache_address_chain_length' = 0
  /\ cache_address' = IF s <= Len(index_table) THEN index_table[s].value
                      ELSE cache_address

\* the test of the index file left out
IndexFileNeverMissing(file) == FALSE

\* not os.path.exists(index_file_path)
IndexFileMissing(file) == file.state = "absent"

\* os.path.exists(index_file_path); a missing index file is an error
CheckIndex ==
  /\ pc = "start"
  /\ \E file \in IndexFileSamples :
       /\ disk_index' = file
       /\ IF IndexFileMissing(file)
            THEN End("MissingIndex")
            ELSE pc' = "open_index" /\ UNCHANGED result
  /\ UNCHANGED <<disk_files, index_table, data_block_files,
                 have_all_data_block_files, open_files, table_pos, slot,
                 cache_address, cache_address_chain_length, output, reads,
                 addr_value, addr_decoded, argument, returned>>

\* index_file.Open(index_file_path): the header, then the index table
OpenIndex ==
  /\ pc = "open_index"
  /\ open_files' = open_files \cup {"index"}
  /\ LET status == IndexFileReadFileHeader(disk_index.header)
     IN  IF status # "ok"
           THEN End(status) /\ UNCHANGED <<index_table, reads>>
           ELSE /\ index_table' = ReadIndexTable(disk_index.words)
                /\ reads' = [s \in 1..Len(index_table') |-> 0]
                /\ pc' = "open_data"
                /\ UNCHANGED result
  /\ UNCHANGED <<disk_index, disk_files, data_block_files,
                 have_all_data_block_files, table_pos, slot, cache_address,
                 cache_address_chain_length, output, addr_value,
                 addr_decoded, argument, returned>>

\* one pass of the first loop: the data block file of one table value
OpenDataFile ==
  /\ pc = "open_data"
  /\ table_pos <= Len(index_table)
  /\ LET filename == CacheAddress(index_table[table_pos].value).filename
         next_pos == /\ table_pos' = table_pos + 1
                     /\ UNCHANGED <<pc, result>>
     IN  IF filename # None /\ filename[1] \in data_block_files
           THEN \* already opened
                /\ next_pos
                /\ UNCHANGED <<disk_files, data_block_files,
                               have_all_data_block_files, open_files>>
         ELSE IF filename = None
           THEN \* os.path.join(path, None)
                /\ End("AttributeError")
                /\ UNCHANGED <<disk_files, data_block_files,
                               have_all_data_block_files, open_files,
                               table_pos>>
         ELSE \E file \in DataFileSamples(filename[1]) :
                /\ \/ disk_files[filename[1]].state = "unknown"
                   \/ disk_files[filename[1]] = file
                /\ disk_files' = [disk_files EXCEPT ![filename[1]] = file]
                /\ IF file.state = "absent"
                     THEN /\ have_all_data_block_files' = FALSE
                          /\ next_pos
                          /\ UNCHANGED <<data_block_files, open_files>>
                     ELSE /\ open_files' = open_files \cup {filename[1]}
                          /\ UNCHANGED have_all_data_block_files
                          /\ LET status ==
                                   DataBlockFileReadFileHeader(file.header)
                             IN  IF status # "ok"
                                   THEN /\ End(status)
                                        /\ UNCHANGED <<data_block_files,
                                                       table_pos>>
                                   ELSE /\ data_block_files' =
                                             data_block_files \cup
                                               {filename[1]}
                                        /\ next_pos
  /\ UNCHANGED <<disk_index, index_table, slot, cache_address,
                 cache_address_chain_length, output, reads, addr_value,
                 addr_decoded, argument, returned>>

\* the traversal not guarded by have_all_data_block_files
TraversalRunsAlways(have_all) == TRUE

\* if have_all_data_block_files: the traversal
TraversalRuns(have_all) == have_all

\* the first loop is over: traverse if no file was missing
EndOpenPhase ==
  /\ pc = "open_data"
  /\ table_pos > Len(index_table)
  /\ IF TraversalRuns(have_all_data_block_files)
       THEN pc' = "traverse" /\ StartSlot(1)
       ELSE pc' = "close" /\ UNCHANGED <<slot, cache_address,
                                         cache_address_chain_length>>
  /\ UNCHANGED <<result, disk_index, disk_files, index_table,
                 data_block_files, have_all_data_block_files, open_files,
                 table_pos, output, reads, addr_value, addr_decoded, argument, returned>>

MAX_CHAIN_LENGTH == 64

\* a chain length test that lets one more entry through
ChainLengthReachedLate(length) == length > MAX_CHAIN_LENGTH

\* if cache_address_chain_length >= 64: break
ChainLengthReached(length) == length >= MAX_CHAIN_LENGTH

\* any address with a file name taken to have its file opened
DataFileNamed(value, opened) == CacheAddress(value).filename # None

\* data_block_files.get(cache_address.filename, None) is a file
DataFileOpened(value, opened) ==
  LET filename == CacheAddress(value).filename
  IN  filename # None /\ filename[1] \in opened

\* the while statement ends or breaks: zero address, chain length reached,
\* or no opened file of that name
ChainStops(value, length, opened) ==
  \/ value = ZeroWord
  \/ ChainLengthReached(length)
  \/ ~DataFileOpened(value, opened)

\* the chain of the current slot stops; the for statement goes on
ChainStop ==
  /\ pc = "traverse"
  /\ slot <= Len(index_table)
  /\ ChainStops(cache_address, cache_address_chain_length, data_block_files)
  /\ StartSlot(slot + 1)
  /\ UNCHANGED <<pc, result, disk_index, disk_files, index_table,
                 data_block_files, have_all_data_block_files, open_files,
                 table_pos, output, reads, addr_value, addr_decoded, argument, returned>>

\* the exception one pass of the while statement raises after the entry
\* was read, or "none": cache_entry.key is text, so decoding it encodes it
\* first, and the error of that is not the one the code catches
EmitError(cache_entry) ==
  IF \E i \in 1..Len(cache_entry.key) : cache_entry.key[i] >= 128
    THEN "UnicodeEncodeError"
  ELSE IF DateOverflows(cache_entry.creation_time) THEN "OverflowError"
  ELSE "none"

\* one pass of the while statement that reads an entry
ChainRead ==
  /\ pc = "traverse"
  /\ slot <= Len(index_table)
  /\ ~ChainStops(cache_address, cache_address_chain_length, data_block_files)
  /\ reads' = [reads EXCEPT ![slot] = @ + 1]
  /\ LET address == CacheAddress(cache_address)
         cache_entry == ReadCacheEntry(disk_files[address.filename[1]],
                                       address.block_offset)
         error == IF cache_entry.error # "none" THEN cache_entry.error
                  ELSE EmitError(cache_entry)
     IN  IF error # "none"
           THEN /\ End(error)
                /\ UNCHANGED <<cache_address, cache_address_chain_length,
                               output>>
           ELSE /\ output' = Append(output,
                       <<DateString(cache_entry.creation_time),
                         cache_entry.key>>)
                /\ cache_address' = cache_entry.next
                /\ cache_address_chain_length' = cache_address_chain_length + 1
                /\ UNCHANGED <<pc, result>>
  /\ UNCHANGED <<disk_index, disk_files, index_table, data_block_files,
                 have_all_data_block_files, open_files, table_pos, slot,
                 addr_value, addr_decoded, argument, returned>>

\* the second loop is over
EndTraversal ==
  /\ pc = "traverse"
  /\ slot > Len(index_table)
  /\ pc' = "close"
  /\ UNCHANGED <<result, disk_index, disk_files, index_table,
                 data_block_files, have_all_data_block_files, open_files,
                 table_pos, slot, cache_address, cache_address_chain_length,
                 output, reads, addr_value, addr_decoded, argument, returned>>

\* index_file.Close() left out
DataFilesClosed(opened) == opened

\* the files Close() is called on: every value of data_block_files, and
\* the index file
FilesClosed(opened) == opened \cup {"index"}

CloseFiles ==
  /\ pc = "close"
  /\ open_files' = open_files \ FilesClosed(data_block_files)
  /\ pc' = "raise"
  /\ UNCHANGED <<result, disk_index, disk_files, index_table,
                 data_block_files, have_all_data_block_files, table_pos, slot,
                 cache_address, cache_address_chain_length, output, reads,
                 addr_value, addr_decoded, argument, returned>>

\* the final raise left out
FinishWithoutRaise(have_all) == "ok"

\* if not have_all_data_block_files: raise; else the call returns
FinishResult(have_all) == IF have_all THEN "ok" ELSE "MissingDataFiles"

Finish ==
  /\ pc = "raise"
  /\ End(FinishResult(have_all_data_block_files))
  /\ UNCHANGED <<disk_index, disk_files, index_table, data_block_files,
                 have_all_data_block_files, open_files, table_pos, slot,
                 cache_address, cache_address_chain_length, output, reads,
                 addr_value, addr_decoded, argument, returned>>

Next ==
  \/ CheckIndex
  \/ OpenIndex
  \/ OpenDataFile
  \/ EndOpenPhase
  \/ ChainStop
  \/ ChainRead
  \/ EndTraversal
  \/ CloseFiles
  \/ Finish

Spec == Init /\ [][Next]_vars

----------------------------------------------------------------------------
(* The address codec on its own: one address is constructed                *)

\* 32-bit values of every initialized bit, file type, block size field and
\* reserved field, with a few file selectors and block numbers
AddressInputs ==
  { Word(i * 32768 + t * 4096 + r * 1024 + b * 256 + f, n) :
      i \in {0, 1}, t \in 0..7, r \in {0, 3}, b \in {0, 3},
      f \in {0, 2, 255}, n \in {0, 1, 5, 65535} }

AddrInit ==
  /\ Init!1 /\ Init!2 /\ Init!3 /\ Init!4 /\ Init!5 /\ Init!6 /\ Init!7
  /\ Init!8 /\ Init!9 /\ Init!10 /\ Init!11 /\ Init!12 /\ Init!13 /\ Init!14
  /\ addr_value \in AddressInputs
  /\ addr_decoded = None
  /\ argument = None
  /\ returned = None

\* CacheAddress(addr_value)
Construct ==
  /\ addr_decoded = None
  /\ addr_decoded' = Some(CacheAddress(addr_value))
  /\ UNCHANGED <<pc, result, disk_index, disk_files, index_table,
                 data_block_files, have_all_data_block_files, open_files,
                 table_pos, slot, cache_address, cache_address_chain_length,
                 output, reads, addr_value, argument, returned>>

AddrNext == Construct

AddrSpec == AddrInit /\ [][AddrNext]_vars

----------------------------------------------------------------------------
(* SuperFastHash on its own: the hash of one key is calculated             *)

MaxKeyLength == 7

\* the bytes the keys are made of
HashBytes == {0, 97, 255}

\* the keys of up to MaxKeyLength bytes
HashKeys == UNION {[1..n -> HashBytes] : n \in 0..MaxKeyLength}

HashInit ==
  /\ Init!1 /\ Init!2 /\ Init!3 /\ Init!4 /\ Init!5 /\ Init!6 /\ Init!7
  /\ Init!8 /\ Init!9 /\ Init!10 /\ Init!11 /\ Init!12 /\ Init!13 /\ Init!14
  /\ Init!15 /\ Init!16
  /\ argument \in {Some(key) : key \in HashKeys}
  /\ returned = None

\* every variable of ParseDirectory and of the address codec
other_vars ==
  <<pc, result, disk_index, disk_files, index_table, data_block_files,
    have_all_data_block_files, open_files, table_pos, slot, cache_address,
    cache_address_chain_length, output, reads, addr_value, addr_decoded>>

\* SuperFastHash(key)
Hash ==
  /\ returned = None
  /\ returned' = Some(SuperFastHash(argument[1]))
  /\ UNCHANGED <<other_vars, argument>>

HashNext == Hash

HashSpec == HashInit /\ [][HashNext]_vars

----------------------------------------------------------------------------
(* ReadCacheEntry on its own: one entry is read from an open file          *)

MaxKeyPrefix == 3

\* the bytes the start of a key buffer is made of: NUL, "h", the last
\* ASCII code, the first code that is not ASCII, 0xe9
KeyBytes == {0, 104, 127, 128, 233}

\* a 160 byte key buffer that starts with the given bytes and goes on with
\* the same byte to its end
FilledBuffer(prefix, fill) ==
  [i \in 1..KEY_SIZE |-> IF i <= Len(prefix) THEN prefix[i] ELSE fill]

\* key buffers that end at a NUL, have no NUL at all, or have bytes that
\* are not ASCII before or after the first NUL
KeyBuffers ==
  { FilledBuffer(prefix, fill) :
      prefix \in UNION {[1..n -> KeyBytes] : n \in 0..MaxKeyPrefix},
      fill \in {0, 120, 233} }

\* a data block file with one cache entry, at offset 8192
FileOfEntry(key) ==
  [state |-> "present",
   header |-> [signature |-> DATA_BLOCK_SIGNATURE, major_version |-> 2,
               minor_version |-> 1],
   words |-> <<>>,
   blocks |-> [o \in {8192} |->
                 [readable |-> TRUE, next_address |-> ZeroWord,
                  creation_time |-> <<0, 0, 0, 0, 0, 0, 0, 1>>, key |-> key]]]

KeyInit ==
  /\ Init!1 /\ Init!2 /\ Init!3 /\ Init!4 /\ Init!5 /\ Init!6 /\ Init!7
  /\ Init!8 /\ Init!9 /\ Init!10 /\ Init!11 /\ Init!12 /\ Init!13 /\ Init!14
  /\ Init!15 /\ Init!16
  /\ argument \in {Some(key) : key \in KeyBuffers}
  /\ returned = None

\* data_file.ReadCacheEntry(8192)
ReadEntry ==
  /\ returned = None
  /\ returned' = Some(ReadCacheEntry(FileOfEntry(argument[1]), Some(8192)))
  /\ UNCHANGED <<other_vars, argument>>

KeyNext == ReadEntry

KeySpec == KeyInit /\ [][KeyNext]_vars

----------------------------------------------------------------------------
(* IndexFile.ReadFileObject on its own: one index file is read             *)

MaxTableWords == 3

\* the four bytes of a word, the least significant first
BytesOfWord(word) ==
  <<word[2] % 256, word[2] \div 256, word[1] % 256, word[1] \div 256>>

RECURSIVE BytesOfWords(_)
BytesOfWords(words) ==
  IF words = <<>> THEN <<>>
  ELSE BytesOfWord(Head(words)) \o BytesOfWords(Tail(words))

\* what follows the last complete word of the table: nothing, or one to
\* three bytes
Fragments == {<<>>, <<1>>, <<0, 0>>, <<1, 0, 160>>}

\* the index files read: a header, then the LRU data (in full, or cut
\* short by the end of the file), then the bytes of the index table
IndexFiles ==
  { [header |-> h, lru_data |-> TRUE, data |-> BytesOfWords(w) \o f] :
      h \in HeaderSamples(INDEX_SIGNATURE, DATA_BLOCK_SIGNATURE),
      w \in UNION {[1..n -> IndexWordSamples] : n \in 0..MaxTableWords},
      f \in Fragments }
  \cup
  { [header |-> h, lru_data |-> FALSE, data |-> <<>>] :
      h \in HeaderSamples(INDEX_SIGNATURE, DATA_BLOCK_SIGNATURE) }

IndexInit ==
  /\ Init!1 /\ Init!2 /\ Init!3 /\ Init!4 /\ Init!5 /\ Init!6 /\ Init!7
  /\ Init!8 /\ Init!9 /\ Init!10 /\ Init!11 /\ Init!12 /\ Init!13 /\ Init!14
  /\ Init!15 /\ Init!16
  /\ argument \in {Some(file) : file \in IndexFiles}
  /\ returned = None

\* index_file.ReadFileObject(file_object)
ReadIndex ==
  /\ returned = None
  /\ returned' = Some(IndexFileReadFileObject(argument[1]))
  /\ UNCHANGED <<other_vars, argument>>

IndexNext == ReadIndex

IndexSpec == IndexInit /\ [][IndexNext]_vars

----------------------------------------------------------------------------
(* _ReadFileHeader on its own: the header of one file is validated         *)

\* signatures: the two magic numbers, zero, and numbers one off a magic
\* number in either half
SignatureSamples ==
  {DATA_BLOCK_SIGNATURE, INDEX_SIGNATURE, ZeroWord, Word(49412, 51906),
   Word(49413, 51907)}

\* headers of every sample signature with versions 0.0 to 20.10
HeaderInputs ==
  [signature : SignatureSamples, major_version : {0, 1, 2, 3, 20},
   minor_version : {0, 1, 2, 10}]

HeaderInit ==
  /\ Init!1 /\ Init!2 /\ Init!3 /\ Init!4 /\ Init!5 /\ Init!6 /\ Init!7
  /\ Init!8 /\ Init!9 /\ Init!10 /\ Init!11 /\ Init!12 /\ Init!13 /\ Init!14
  /\ Init!15 /\ Init!16
  /\ argument \in {Some([file_type |-> t, header |-> h]) :
                     t \in {"data_block", "index"}, h \in HeaderInputs}
  /\ returned = None

\* DataBlockFile._ReadFileHeader or IndexFile._ReadFileHeader
ReadHeader ==
  /\ returned = None
  /\ returned' =
       Some(IF argument[1].file_type = "data_block"
              THEN DataBlockFileReadFileHeader(argument[1].header)
              ELSE IndexFileReadFileHeader(argument[1].header))
  /\ UNCHANGED <<other_vars, argument>>

HeaderNext == ReadHeader

HeaderSpec == HeaderInit /\ [][HeaderNext]_vars

----------------------------------------------------------------------------
(* ChromeCacheParser.ParseFile: one file is parsed                         *)

UINT32LE_SIZE == 4

DATA_BLOCK_FILE_HEADER_SIZE == 8192

INDEX_FILE_HEADER_SIZE == 256

LRU_DATA_SIZE == 112

\* _ReadStructure of a file header of the given size at the given offset:
\* None when the file ends before the end of the structure (ParseError),
\* or the signature (uint32), minor_version and major_version (uint16) of
\* the structure, all little-endian
ReadHeaderStructure(file, file_offset, size) ==
  IF file_offset + size > file.size THEN None
  ELSE Some([signature     |-> MapUint32le(Read4(file.data, file_offset)),
             minor_version |-> file.data[file_offset + 5]
                                 + 256 * file.data[file_offset + 6],
             major_version |-> file.data[file_offset + 7]
                                 + 256 * file.data[file_offset + 8]])

\* DataBlockFile.ReadFileObject on a file object at the given position
\* (file_object.tell()): "ok" or the ParseError raised
DataBlockFileReadFileObject(file, position) ==
  LET file_header ==
        ReadHeaderStructure(file, position, DATA_BLOCK_FILE_HEADER_SIZE)
  IN  IF file_header = None THEN "ParseError"
      ELSE DataBlockFileReadFileHeader(file_header[1])

\* IndexFile.ReadFileObject on a file object at the given position: the
\* header, the LRU data after it, then the index table up to the end
IndexFileReadFileObjectAt(file, position) ==
  LET file_header ==
        ReadHeaderStructure(file, position, INDEX_FILE_HEADER_SIZE)
  IN  IF file_header = None THEN "ParseError"
      ELSE IF IndexFileReadFileHeader(file_header[1]) # "ok"
        THEN IndexFileReadFileHeader(file_header[1])
      ELSE IF position + INDEX_FILE_HEADER_SIZE + LRU_DATA_SIZE > file.size
        THEN "ParseError"
      ELSE "ok"

\* ParseFile: the signature is read from the start of the file, then the
\* file object, left where that read ended, is handed to ReadFileObject
ParseFile(file) ==
  LET signature_data == Read4(file.data, 0)
  IN  IF Len(signature_data) # UINT32LE_SIZE THEN "ParseError"
      ELSE LET signature == MapUint32le(signature_data)
           IN  IF signature = DATA_BLOCK_SIGNATURE
                 THEN DataBlockFileReadFileObject(file, Len(signature_data))
               ELSE IF signature = INDEX_SIGNATURE
                 THEN IndexFileReadFileObjectAt(file, Len(signature_data))
               ELSE "UnsupportedSignature"

\* the first bytes of the files parsed: a signature, minor_version,
\* major_version and the four bytes after them
FileStarts ==
  { BytesOfWord(signature) \o <<minor % 256, minor \div 256>>
      \o <<major % 256, major \div 256>> \o rest :
      signature \in {DATA_BLOCK_SIGNATURE, INDEX_SIGNATURE, ZeroWord},
      minor \in {0, 1, 2, 51907},
      major \in {2, 3, 49411, 49412},
      rest \in {<<0, 0, 0, 0>>, <<1, 0, 2, 0>>} }

\* file sizes: less than a signature, less than a header, each header (and
\* the LRU data) exactly, the same with four bytes more, and a large file
FileSizes == {3, 8, 256, 368, 372, 8192, 8196, 100000}

\* the files parsed: their size and their first bytes, which hold the
\* signature and the version of a header at offset 0 or at offset 4
ParsedFiles ==
  { [size |-> size,
     data |-> SubSeq(start, 1, IF size < Len(start) THEN size
                               ELSE Len(start))] :
      size \in FileSizes, start \in FileStarts }

ParseInit ==
  /\ Init!1 /\ Init!2 /\ Init!3 /\ Init!4 /\ Init!5 /\ Init!6 /\ Init!7
  /\ Init!8 /\ Init!9 /\ Init!10 /\ Init!11 /\ Init!12 /\ Init!13 /\ Init!14
  /\ Init!15 /\ Init!16
  /\ argument \in {Some(file) : file \in ParsedFiles}
  /\ returned = None

\* parser.ParseFile(path)
Parse ==
  /\ returned = None
  /\ returned' = Some(ParseFile(argument[1]))
  /\ UNCHANGED <<other_vars, argument>>

ParseNext == Parse

ParseSpec == ParseInit /\ [][ParseNext]_vars

----------------------------------------------------------------------------
(* Properties                                                              *)

\* the index file was opened and its table read
IndexOpened ==
  /\ disk_index.state = "present"
  /\ IndexFileReadFileHeader(disk_index.header) = "ok"

\* the file name of the table value at position i
TableFilename(i) == CacheAddress(index_table[i].value).filename

\* the steps a call may still take are bounded by this number: the phases
\* in order, and inside a loop the passes that remain
StepsLeft ==
  LET width == 66 * (MaxWords + 2)
      slots == Len(index_table)
  IN  CASE pc = "start" -> 6 * width
        [] pc = "open_index" -> 5 * width
        [] pc = "open_data" -> 4 * width + (slots + 1 - table_pos)
        [] pc = "traverse" ->
             3 * width + (slots + 1 - slot) * 66
               + (65 - cache_address_chain_length)
        [] pc = "close" -> 2 * width
        [] pc = "raise" -> width
        [] pc = "done" -> 0

\* C1: for every slot of index_table at most 64 entries are read along
\* its chain of next addresses, and the call ends, whatever the files hold
\* (cyclic chains included): every step of the call lowers a number that
\* never goes below zero.
C1_ChainBounded ==
  /\ [](\A s \in DOMAIN reads : reads[s] <= 64)
  /\ [](StepsLeft >= 0)
  /\ [][StepsLeft' < StepsLeft]_vars

\* a chain that was cut at 64 entries, in a call that returned
C1_Witness ==
  /\ pc = "done"
  /\ result = "ok"
  /\ \E s \in DOMAIN reads : reads[s] = 64

\* a table value whose file was found missing
SomeReferencedMissing ==
  \E i \in 1..Len(index_table) :
    /\ TableFilename(i) # None
    /\ disk_files[TableFilename(i)[1]].state = "absent"

\* the records that following a chain from the given address emits, with
\* the given files opened: up to the first stop or exception
RECURSIVE ChainRecords(_, _, _)
ChainRecords(value, length, opened) ==
  LET address == CacheAddress(value)
      named == address.filename # None /\ address.filename[1] \in opened
  IN  IF value = ZeroWord \/ length >= 64 \/ ~named THEN <<>>
      ELSE LET cache_entry ==
                 ReadCacheEntry(disk_files[address.filename[1]],
                                address.block_offset)
           IN  IF cache_entry.error # "none" \/ EmitError(cache_entry) # "none"
                 THEN <<>>
                 ELSE <<(<<DateString(cache_entry.creation_time),
                           cache_entry.key>>)>>
                      \o ChainRecords(cache_entry.next, length + 1, opened)

\* C2 as claimed: when a referenced data file is missing, every entry that
\* can be reached from a slot through the opened files has been emitted
\* when the call ends with the missing-files error.
C2_Original ==
  (pc = "done" /\ result = "MissingDataFiles") =>
    \A s \in 1..Len(index_table) :
      LET records == ChainRecords(index_table[s].value, 0, data_block_files)
      IN  \A i \in 1..Len(records) :
            \E j \in 1..Len(output) : output[j] = records[i]

\* C2 as amended: once a referenced data file was found missing no
\* traversal runs, so no entry is read or emitted, not even from the files
\* that did open, and the missing-files error ends a call without output.
C2_NoTraversalWhenMissing ==
  /\ ~have_all_data_block_files =>
       /\ pc # "traverse"
       /\ output = <<>>
       /\ \A s \in DOMAIN reads : reads[s] = 0
  /\ result = "MissingDataFiles" =>
       ~have_all_data_block_files /\ output = <<>>

\* the call ended with the missing-files error although an opened file
\* holds an entry that a slot leads to
C2_Witness ==
  /\ pc = "done"
  /\ result = "MissingDataFiles"
  /\ \E s \in 1..Len(index_table) :
       ChainRecords(index_table[s].value, 0, data_block_files) # <<>>

\* C3 as claimed: the call ends with the missing-files error exactly when
\* a referenced file does not exist, and only after every slot has been
\* processed and every opened file closed.
C3_Original ==
  (pc = "done" /\ IndexOpened) =>
    /\ (result = "MissingDataFiles") <=> SomeReferencedMissing
    /\ result = "MissingDataFiles" =>
         open_files = {} /\ slot > Len(index_table)

\* C3 as amended: the call ends with the missing-files error exactly when
\* a referenced file does not exist and the first loop went over the whole
\* table without another error; the error comes after that loop and after
\* every opened file was closed, and no slot was traversed.
C3_MissingFilesError ==
  /\ (pc = "done" /\ IndexOpened) =>
       ((result = "MissingDataFiles") <=>
          (SomeReferencedMissing /\ table_pos > Len(index_table)))
  /\ result = "MissingDataFiles" =>
       /\ open_files = {}
       /\ table_pos > Len(index_table)
       /\ output = <<>>
       /\ \A s \in DOMAIN reads : reads[s] = 0

\* the missing-files error after a file was found missing at the first
\* table value and another file was opened after it
C3_Witness ==
  /\ pc = "done"
  /\ result = "MissingDataFiles"
  /\ Len(index_table) >= 2
  /\ disk_files[TableFilename(1)[1]].state = "absent"
  /\ data_block_files # {}

\* C4: when the call returns or ends with the missing-files error, the
\* index file and every data block file it opened are closed.
C4_FilesClosed ==
  (pc = "done" /\ result \in {"ok", "MissingDataFiles"}) => open_files = {}

\* a call that returned after it had opened data block files
C4_Witness ==
  /\ pc = "done"
  /\ result = "ok"
  /\ data_block_files # {}
  /\ output # <<>>

\* C5: without a file named index the call fails with the missing-index
\* error before any file is opened or looked at and without any record.
C5_MissingIndex ==
  disk_index.state = "absent" =>
    /\ pc = "done"
    /\ result = "MissingIndex"
    /\ open_files = {}
    /\ output = <<>>
    /\ \A name \in FileNames : disk_files[name].state = "unknown"

\* the call ended with the missing-index error
C5_Witness ==
  /\ pc = "done"
  /\ result = "MissingIndex"
  /\ disk_index.state = "absent"

\* what validating the header of a data block file gives
DataHeaderStatus(file) == ReadFileHeader(file.header, DATA_BLOCK_SIGNATURE)

\* C6 as claimed: no failure to open a referenced file as a data block
\* file, a wrong signature and an unsupported version included, aborts the
\* call.
C6_Original ==
  IndexOpened => result \notin {"InvalidSignature", "UnsupportedVersion"}

\* C6 as amended: a referenced file that does not exist is tracked and does
\* not abort the call, whose first loop still opens the other referenced
\* files; a referenced file that exists with a wrong signature or an
\* unsupported version ends the call at once with that error.
C6_OpenFailures ==
  /\ have_all_data_block_files <=>
       \A name \in FileNames : disk_files[name].state # "absent"
  /\ (pc \in {"traverse", "close", "raise"}
        \/ (pc = "done" /\ result \in {"ok", "MissingDataFiles"})) =>
       \A i \in 1..Len(index_table) :
         /\ TableFilename(i) # None
         /\ \/ disk_files[TableFilename(i)[1]].state = "absent"
            \/ TableFilename(i)[1] \in data_block_files
  /\ \A name \in data_block_files :
       /\ disk_files[name].state = "present"
       /\ DataHeaderStatus(disk_files[name]) = "ok"
  /\ \A name \in FileNames :
       (disk_files[name].state = "present"
          /\ DataHeaderStatus(disk_files[name]) # "ok") =>
         /\ pc = "done"
         /\ result = DataHeaderStatus(disk_files[name])
         /\ table_pos <= Len(index_table)
         /\ TableFilename(table_pos) = Some(name)

\* a missing file was passed over, then a file with a bad header ended the
\* call
C6_Witness ==
  /\ pc = "done"
  /\ IndexOpened
  /\ result \in {"InvalidSignature", "UnsupportedVersion"}
  /\ ~have_all_data_block_files
  /\ table_pos = 2

\* the current cache address names a file that is among the opened files
FileOpenedFor(value) ==
  /\ CacheAddress(value).filename # None
  /\ CacheAddress(value).filename[1] \in data_block_files

\* the block the current cache address names cannot be read
CurrentBlockUnreadable ==
  LET address == CacheAddress(cache_address)
  IN  /\ address.filename # None
      /\ address.filename[1] \in data_block_files
      /\ address.block_offset # None
      /\ LET blocks == disk_files[address.filename[1]].blocks
         IN  \/ address.block_offset[1] \notin DOMAIN blocks
             \/ ~blocks[address.block_offset[1]].readable

\* C7 as claimed: a failure of ReadCacheEntry never ends the call with an
\* error.
C7_Original == ~(pc = "done" /\ result = "ParseError")

\* the current cache address names an opened file and has no block offset
\* to read at (a separate file)
CurrentOffsetMissing ==
  /\ FileOpenedFor(cache_address)
  /\ CacheAddress(cache_address).block_offset = None

\* C7 as amended: a failure of ReadCacheEntry ends the call at once with
\* the exception it raised, in the slot and at the address where the read
\* failed; the records emitted before stay emitted, and the remaining slots
\* are not processed.
C7_ReadFailureEndsCall ==
  /\ [](result \in {"ParseError", "TypeError"} =>
         /\ pc = "done"
         /\ slot <= Len(index_table)
         /\ result = "ParseError" => CurrentBlockUnreadable
         /\ result = "TypeError" => CurrentOffsetMissing
         /\ reads[slot] = cache_address_chain_length + 1
         /\ \A s \in DOMAIN reads : s > slot => reads[s] = 0)
  /\ [][(pc = "traverse" /\ slot <= Len(index_table)
           /\ ~ChainStops(cache_address, cache_address_chain_length,
                          data_block_files)) =>
          /\ CurrentBlockUnreadable =>
               (pc' = "done" /\ result' = "ParseError" /\ output' = output)
          /\ CurrentOffsetMissing =>
               (pc' = "done" /\ result' = "TypeError" /\ output' = output)]_vars
  /\ [][Len(output') >= Len(output)
          /\ SubSeq(output', 1, Len(output)) = output]_vars

\* a read failed after records were emitted and before the last slot
C7_Witness ==
  /\ pc = "done"
  /\ result = "ParseError"
  /\ output # <<>>
  /\ slot < Len(index_table)

\* C8: when the current address of a chain names a file that is not among
\* the opened files, only that chain stops: no entry is read, the records
\* emitted so far are kept, the next slot is taken and the call does not
\* fail.
C8_UnopenedFileStopsChain ==
  [][(pc = "traverse" /\ slot <= Len(index_table)
       /\ cache_address # ZeroWord
       /\ cache_address_chain_length < 64
       /\ ~FileOpenedFor(cache_address)) =>
      /\ pc' = "traverse"
      /\ result' = "none"
      /\ output' = output
      /\ reads' = reads
      /\ slot' = slot + 1]_vars

\* a call that returned after the chain of its last slot emitted records
\* and then stopped at an address whose file was not opened
C8_Witness ==
  /\ pc = "done"
  /\ result = "ok"
  /\ cache_address # ZeroWord
  /\ ~FileOpenedFor(cache_address)
  /\ reads[Len(index_table)] >= 1
  /\ output # <<>>

\* the block at the current cache address holds an entry whose key has a
\* byte that is not ASCII before its first NUL, and a date in range
CurrentKeyNeedsReplacement ==
  LET address == CacheAddress(cache_address)
      block == disk_files[address.filename[1]].blocks[address.block_offset[1]]
  IN  /\ pc = "traverse" /\ slot <= Len(index_table)
      /\ cache_address # ZeroWord
      /\ cache_address_chain_length < 64
      /\ FileOpenedFor(cache_address)
      /\ address.block_offset # None
      /\ address.block_offset[1] \in
           DOMAIN disk_files[address.filename[1]].blocks
      /\ block.readable
      /\ \E i \in 1..Len(Partition(block.key)) : Partition(block.key)[i] >= 128
      /\ ~DateOverflows(block.creation_time)

\* C9: an entry whose key needed the replacement of bytes that are not
\* ASCII is not fatal: its record is emitted with the replaced key and the
\* chain goes on to the next address of the entry.
C9_ReplacedKeyNotFatal ==
  [][CurrentKeyNeedsReplacement =>
      LET address == CacheAddress(cache_address)
          block ==
            disk_files[address.filename[1]].blocks[address.block_offset[1]]
      IN  /\ result' = "none"
          /\ pc' = "traverse"
          /\ output' = Append(output, <<DateString(block.creation_time),
                                        DecodeReplace(Partition(block.key))>>)
          /\ cache_address' = block.next_address]_vars

\* C10: the constructor fails for no 32-bit value; none of file name,
\* block number, block size and block offset is derived exactly when the
\* value is zero or its file type (bits 28 to 30) is 5, 6 or 7, and a file
\* name is derived for every other value; is_initialized is bit 31, so
\* zero is not initialized.
C10_AddressTotal ==
  addr_decoded # None =>
    LET address == addr_decoded[1]
        file_type == (addr_value[1] \div 4096) % 8
        nothing == addr_value = ZeroWord \/ file_type \in {5, 6, 7}
    IN  /\ address.error = "none"
        /\ nothing <=>
             /\ address.filename = None
             /\ address.block_number = None
             /\ address.block_size = None
             /\ address.block_offset = None
        /\ ~nothing => address.filename # None
        /\ address.is_initialized <=> addr_value[1] >= 32768
        /\ addr_value = ZeroWord => ~address.is_initialized

\* an address of file type 5 with its initialized bit set was constructed
C10_Witness ==
  /\ addr_decoded # None
  /\ (addr_value[1] \div 4096) % 8 = 5
  /\ addr_value[1] >= 32768
  /\ addr_decoded[1].filename = None
  /\ addr_decoded[1].is_initialized

\* the hexadecimal digit string of n of exactly the given width
RECURSIVE HexOfWidth(_, _)
HexOfWidth(n, width) ==
  IF width = 0 THEN ""
  ELSE HexOfWidth(n \div 16, width - 1) \o HexDigit(n % 16)

\* the decimal digit string of a number below 1000, without leading zeros
DecimalBelow1000(n) ==
  IF n < 10 THEN HexDigit(n)
  ELSE IF n < 100 THEN HexDigit(n \div 10) \o HexDigit(n % 10)
  ELSE HexDigit(n \div 100) \o HexDigit((n \div 10) % 10) \o HexDigit(n % 10)

\* the base unit of a block file type
BaseUnit(file_type) ==
  CASE file_type = 1 -> 36 [] file_type = 2 -> 256
    [] file_type = 3 -> 1024 [] file_type = 4 -> 4096

\* C11: a non-zero value of file type 0 to 4 decodes the documented bit
\* layout: file type 0 gives the name f_ and the low 28 bits as six (or,
\* above 0xffffff, seven) lowercase hexadecimal digits and no block field;
\* file types 1 to 4 give the name data_ and bits 16 to 23 in decimal, the
\* low 16 bits as block number, bits 24 and 25 times the base unit as block
\* size and 8192 plus block number times the base unit as block offset.
C11_BitLayout ==
  (addr_decoded # None /\ addr_value # ZeroWord
     /\ (addr_value[1] \div 4096) % 8 <= 4) =>
    LET address == addr_decoded[1]
        hi == addr_value[1]
        lo == addr_value[2]
        file_type == (hi \div 4096) % 8
        low28 == (hi % 4096) * 65536 + lo
    IN  IF file_type = 0
          THEN /\ address.filename =
                    Some("f_" \o HexOfWidth(low28,
                                   IF low28 < 16777216 THEN 6 ELSE 7))
               /\ address.block_number = None
               /\ address.block_size = None
               /\ address.block_offset = None
          ELSE /\ address.filename = Some("data_" \o DecimalBelow1000(hi % 256))
               /\ address.block_number = Some(lo)
               /\ address.block_size =
                    Some(((hi \div 256) % 4) * BaseUnit(file_type))
               /\ address.block_offset =
                    Some(8192 + lo * BaseUnit(file_type))

\* the 256 byte block address of file 2, block 5 (0xa0020005) was decoded
\* to data_2 and offset 9472
C11_Witness ==
  /\ addr_decoded # None
  /\ addr_value = Word(40962, 5)
  /\ addr_decoded[1].filename = Some("data_2")
  /\ addr_decoded[1].block_number = Some(5)
  /\ addr_decoded[1].block_offset = Some(9472)

\* the bits of a number below 2^n, the least significant first
RECURSIVE BitsOfNumber(_, _)
BitsOfNumber(number, n) ==
  IF n = 0 THEN <<>>
  ELSE <<number % 2>> \o BitsOfNumber(number \div 2, n - 1)

\* a 32-bit word as its 32 bits, the least significant first
BitsOf(word) == BitsOfNumber(word[2], 16) \o BitsOfNumber(word[1], 16)

\* the number a sequence of bits stands for
RECURSIVE NumberOf(_)
NumberOf(bits) ==
  IF bits = <<>> THEN 0 ELSE Head(bits) + 2 * NumberOf(Tail(bits))

WordOf(bits) == Word(NumberOf(SubSeq(bits, 17, 32)), NumberOf(SubSeq(bits, 1, 16)))

\* unsigned 32-bit arithmetic with wraparound, on bit vectors: the sum by
\* carrying from bit to bit, the final carry dropped
RECURSIVE BitsAddFrom(_, _, _, _)
BitsAddFrom(a, b, i, carry) ==
  IF i > 32 THEN <<>>
  ELSE <<(a[i] + b[i] + carry) % 2>>
         \o BitsAddFrom(a, b, i + 1, (a[i] + b[i] + carry) \div 2)

BitsAdd(a, b) == BitsAddFrom(a, b, 1, 0)

RECURSIVE BitsXorFrom(_, _, _)
BitsXorFrom(a, b, i) ==
  IF i > 32 THEN <<>>
  ELSE <<(a[i] + b[i]) % 2>> \o BitsXorFrom(a, b, i + 1)

BitsXor(a, b) == BitsXorFrom(a, b, 1)

BitsShiftLeft(a, k) == BitsOfNumber(0, k) \o SubSeq(a, 1, 32 - k)

BitsShiftRight(a, k) == SubSeq(a, k + 1, 32) \o BitsOfNumber(0, k)

\* the little-endian 16-bit group at position i of the key (from 1)
Get16Bits(key, i) == BitsOf(Word(0, key[i] + 256 * key[i + 1]))

\* the reference algorithm: the 4-byte groups from position i on, then the
\* tail formula of the remainder
RECURSIVE ReferenceFold(_, _, _)
ReferenceFold(hash, key, i) ==
  LET left == Len(key) - i + 1
  IN  IF left >= 4
        THEN LET h1 == BitsAdd(hash, Get16Bits(key, i))
                 tmp == BitsXor(BitsShiftLeft(Get16Bits(key, i + 2), 11), h1)
                 h2 == BitsXor(BitsShiftLeft(h1, 16), tmp)
             IN  ReferenceFold(BitsAdd(h2, BitsShiftRight(h2, 11)), key, i + 4)
      ELSE IF left = 3
        THEN LET h1 == BitsAdd(hash, Get16Bits(key, i))
                 h2 == BitsXor(h1, BitsShiftLeft(h1, 16))
                 h3 == BitsXor(h2, BitsShiftLeft(BitsOf(Word(0, key[i + 2])),
                                                 18))
             IN  BitsAdd(h3, BitsShiftRight(h3, 11))
      ELSE IF left = 2
        THEN LET h1 == BitsAdd(hash, Get16Bits(key, i))
                 h2 == BitsXor(h1, BitsShiftLeft(h1, 11))
             IN  BitsAdd(h2, BitsShiftRight(h2, 17))
      ELSE IF left = 1
        THEN LET h1 == BitsAdd(hash, BitsOf(Word(0, key[i])))
                 h2 == BitsXor(h1, BitsShiftLeft(h1, 10))
             IN  BitsAdd(h2, BitsShiftRight(h2, 1))
      ELSE hash

\* the avalanche steps: xor with a left shift, then add a right shift, for
\* the shift pairs (3, 5), (4, 17), (25, 6)
RECURSIVE ReferenceAvalanche(_, _)
ReferenceAvalanche(hash, shifts) ==
  IF shifts = <<>> THEN hash
  ELSE LET h1 == BitsXor(hash, BitsShiftLeft(hash, shifts[1]))
       IN  ReferenceAvalanche(BitsAdd(h1, BitsShiftRight(h1, shifts[2])),
                              Tail(Tail(shifts)))

ReferenceHash(key) ==
  WordOf(ReferenceAvalanche(ReferenceFold(BitsOf(Word(0, Len(key))), key, 1),
                            <<3, 5, 4, 17, 25, 6>>))

\* C12: SuperFastHash gives 0 for the empty key and, for any other key, a
\* value of 0 to 2^32 - 1 that is the reference algorithm computed with
\* unsigned 32-bit wraparound.
C12_HashReference ==
  returned # None =>
    LET key == argument[1]
        hash_value == returned[1]
    IN  /\ key = <<>> => hash_value = ZeroWord
        /\ hash_value[1] \in 0..65535
        /\ hash_value[2] \in 0..65535
        /\ key # <<>> => hash_value = ReferenceHash(key)

\* the hash 0x6e68321b of the key "a\xffa\xffa\xff\x00", one group of four
\* bytes and a remainder of three, was calculated
C12_Witness ==
  /\ argument = Some(<<97, 255, 97, 255, 97, 255, 0>>)
  /\ returned = Some(Word(28264, 12827))

\* the number of bytes of a key buffer before its first NUL byte
BytesBeforeNul(buffer) ==
  IF \E i \in 1..Len(buffer) : buffer[i] = 0
    THEN (CHOOSE i \in 1..Len(buffer) :
            buffer[i] = 0 /\ \A j \in 1..(i - 1) : buffer[j] # 0) - 1
    ELSE Len(buffer)

\* C13: for every 160 byte key buffer the key ReadCacheEntry returns is the
\* bytes before the first NUL (all of them when there is none), each ASCII
\* byte as its character and each other byte as the replacement character
\* at its place; the read does not fail, the key has at most 160
\* characters and no NUL, and the warning is logged exactly when a byte
\* was replaced.
C13_KeyDecoded ==
  returned # None =>
    LET buffer == argument[1]
        cache_entry == returned[1]
        n == BytesBeforeNul(buffer)
    IN  /\ cache_entry.error = "none"
        /\ Len(cache_entry.key) = n
        /\ n <= 160
        /\ \A i \in 1..n :
             /\ cache_entry.key[i] # 0
             /\ cache_entry.key[i] =
                  IF buffer[i] < 128 THEN buffer[i] ELSE REPLACEMENT_CHARACTER
        /\ cache_entry.replaced <=> \E i \in 1..n : buffer[i] >= 128

\* the key of a buffer without any NUL whose second byte is not ASCII was
\* read: 160 characters, a replacement and a warning
C13_Witness ==
  /\ returned # None
  /\ argument = Some(FilledBuffer(<<104, 233>>, 120))
  /\ Len(returned[1].key) = 160
  /\ returned[1].key[2] = REPLACEMENT_CHARACTER
  /\ returned[1].replaced

\* the complete 4-byte word at the zero-based position k of the data
WordAt(data, k) ==
  Word(data[4 * k + 4] * 256 + data[4 * k + 3],
       data[4 * k + 2] * 256 + data[4 * k + 1])

\* the complete words of the data, in file order
CompleteWords(data) == [k \in 1..(Len(data) \div 4) |-> WordAt(data, k - 1)]

\* the index file of the argument was read without an error
IndexRead ==
  /\ returned # None
  /\ returned[1].error = "none"

\* C14: after the header and the LRU data the index table is read as
\* 4-byte little-endian words up to the end of the file: index_table holds
\* exactly the complete words that are not zero, in file order, each as a
\* CacheAddress; a zero word gives no entry and one to three bytes after
\* the last complete word end the table without an error.
C14_TableOfWords ==
  returned # None =>
    LET file == argument[1]
        table == returned[1].index_table
        non_zero == SelectSeq(CompleteWords(file.data),
                              LAMBDA word : word # ZeroWord)
    IN  /\ (IndexFileReadFileHeader(file.header) = "ok" /\ file.lru_data) =>
             returned[1].error = "none"
        /\ returned[1].error = "none" =>
             /\ Len(table) = Len(non_zero)
             /\ \A i \in 1..Len(table) :
                  /\ table[i].cache_address.value = non_zero[i]
                  /\ table[i].cache_address.error = "none"
                  /\ table[i].cache_address.is_initialized
                       <=> non_zero[i][1] >= 32768

\* a table of a zero word, a word that is not zero and three more bytes
\* was read: one entry
C14_Witness ==
  /\ IndexRead
  /\ argument[1].data = <<0, 0, 0, 0, 0, 0, 1, 160, 1, 0, 160>>
  /\ Len(returned[1].index_table) = 1
  /\ returned[1].index_table[1].cache_address.filename = Some("data_1")

\* C20: every key of index_table is the zero-based position of the word
\* it was read from, zero words counted: keys go up strictly in file
\* order, need not be contiguous, and no entry has the address value 0.
C20_KeysArePositions ==
  IndexRead =>
    LET data == argument[1].data
        table == returned[1].index_table
    IN  /\ \A i \in 1..Len(table) :
             /\ table[i].index \in 0..(Len(data) \div 4 - 1)
             /\ WordAt(data, table[i].index) = table[i].cache_address.value
             /\ table[i].cache_address.value # ZeroWord
        /\ \A i \in 1..(Len(table) - 1) : table[i].index < table[i + 1].index
        /\ \A k \in 0..(Len(data) \div 4 - 1) :
             WordAt(data, k) # ZeroWord =>
               \E i \in 1..Len(table) : table[i].index = k

\* a table whose keys are 0 and 2: the word between them is zero
C20_Witness ==
  /\ IndexRead
  /\ Len(returned[1].index_table) = 2
  /\ returned[1].index_table[1].index = 0
  /\ returned[1].index_table[2].index = 2

\* C15: opening a data block file or an index file fails with the invalid
\* signature error when the signature is not the magic number of that file
\* type (0xc104cac3 and 0xc103cac3), otherwise with the unsupported
\* version error when the version is not 2.0 or 2.1, and otherwise the
\* header is accepted; the signature is tested first.
C15_HeaderValidation ==
  returned # None =>
    LET header == argument[1].header
        magic == IF argument[1].file_type = "data_block"
                   THEN Word(49412, 51907) ELSE Word(49411, 51907)
        supported == header.major_version = 2 /\ header.minor_version \in {0, 1}
    IN  /\ header.signature # magic => returned[1] = "InvalidSignature"
        /\ (header.signature = magic /\ ~supported) =>
             returned[1] = "UnsupportedVersion"
        /\ (header.signature = magic /\ supported) => returned[1] = "ok"

\* an index file header with the signature of a data block file and the
\* version 3.0 was refused for its signature
C15_Witness ==
  /\ returned = Some("InvalidSignature")
  /\ argument[1].file_type = "index"
  /\ argument[1].header.signature = DATA_BLOCK_SIGNATURE
  /\ argument[1].header.major_version = 3

\* the (timestamp, key) pairs of the entries that the first n calls of
\* ReadCacheEntry along the chain from the given address returned, in
\* chain order
RECURSIVE EntriesRead(_, _)
EntriesRead(value, n) ==
  IF n = 0 THEN <<>>
  ELSE LET address == CacheAddress(value)
           cache_entry == ReadCacheEntry(disk_files[address.filename[1]],
                                         address.block_offset)
       IN  IF cache_entry.error # "none" THEN <<>>
           ELSE <<(<<TimeDelta(cache_entry.creation_time),
                     cache_entry.key>>)>>
                \o EntriesRead(cache_entry.next, n - 1)

\* the pairs of the entries read so far, slot after slot from slot s on
RECURSIVE EntriesReadFrom(_)
EntriesReadFrom(s) ==
  IF s > Len(index_table) THEN <<>>
  ELSE EntriesRead(index_table[s].value, reads[s]) \o EntriesReadFrom(s + 1)

\* C16: the output is, in order, exactly one (timestamp, key) pair for
\* each cache entry read: slot after slot in the order of index_table, the
\* pairs of a slot in chain order, each timestamp 1601-01-01T00:00:00 plus
\* the creation_time of the entry in microseconds.
C16_OutputOrdered ==
  pc \in {"traverse", "close", "raise", "done"} =>
    output = EntriesReadFrom(1)

\* the traversal of the table has begun
Traversed ==
  /\ pc \in {"traverse", "close", "raise", "done"}
  /\ table_pos > Len(index_table)
  /\ have_all_data_block_files

\* along the chain from the given address, for up to n entries, every
\* address names an opened file and a block that holds an entry
RECURSIVE ChainOfEntries(_, _)
ChainOfEntries(value, n) ==
  \/ value = ZeroWord
  \/ n = 0
  \/ LET address == CacheAddress(value)
     IN  /\ FileOpenedFor(value)
         /\ address.block_offset # None
         /\ address.block_offset[1]
              \in DOMAIN disk_files[address.filename[1]].blocks
         /\ disk_files[address.filename[1]]
              .blocks[address.block_offset[1]].readable
         /\ ChainOfEntries(
              disk_files[address.filename[1]]
                .blocks[address.block_offset[1]].next_address, n - 1)

\* the number of entries of such a chain, counted up to n: n for a longer
\* chain and for a cycle
RECURSIVE ChainEntries(_, _)
ChainEntries(value, n) ==
  IF value = ZeroWord \/ n = 0 THEN 0
  ELSE LET address == CacheAddress(value)
       IN  1 + ChainEntries(
                 disk_files[address.filename[1]]
                   .blocks[address.block_offset[1]].next_address, n - 1)

\* the records emitted for a slot: one for each call of ReadCacheEntry but
\* the one during which the call ended with an exception
Emitted(s) ==
  IF pc = "done" /\ result \notin {"ok", "MissingDataFiles"} /\ slot = s
    THEN reads[s] - 1
    ELSE reads[s]

\* C17: the chain of a slot stops for one of three reasons only: the
\* current address is zero, 64 entries were emitted for the slot, or the
\* file of the current address is not open; so a chain of n <= 64 entries
\* in open files emits n records and a longer or cyclic one emits 64.
C17_ChainStateMachine ==
  /\ [][(pc = "traverse" /\ slot <= Len(index_table)
           /\ (pc' # "traverse" \/ slot' # slot)) =>
          \/ cache_address = ZeroWord
          \/ Emitted(slot) = 64
          \/ ~FileOpenedFor(cache_address)]_vars
  /\ [](\A s \in 1..Len(index_table) :
          (/\ Traversed
           /\ slot > s \/ pc \in {"close", "raise", "done"}
           /\ ChainOfEntries(index_table[s].value, 64)) =>
            Emitted(s) = ChainEntries(index_table[s].value, 64))

\* C18: however the call ends once the index file was opened, a ParseError
\* of a data block file that is opened or of a cache entry that is read
\* included, the index file and the data block files opened so far are
\* closed.
C18_ClosedOnEveryEnd ==
  (pc = "done" /\ IndexOpened) => open_files = {}

\* the address has no data block file: its file type is 5, 6 or 7 (no
\* file name) or 0 (a separate file); zero is no address
NoBlockFile(value) ==
  /\ value # ZeroWord
  /\ (value[1] \div 4096) % 8 \in {0, 5, 6, 7}

\* C19: an address of index_table without a data block file name (file
\* type 5, 6 or 7) or with the name of a separate file (file type 0) does
\* not make the call fail: the first loop goes on to the next table value
\* and the traversal stops the chain of that slot only.
C19_NoBlockFileNotFatal ==
  /\ [][(pc = "open_data" /\ table_pos <= Len(index_table)
           /\ NoBlockFile(index_table[table_pos].value)) =>
          /\ pc' = "open_data"
          /\ result' = "none"
          /\ table_pos' = table_pos + 1
          /\ have_all_data_block_files' = have_all_data_block_files]_vars
  /\ [][(pc = "traverse" /\ slot <= Len(index_table)
           /\ cache_address = index_table[slot].value
           /\ cache_address_chain_length = 0
           /\ NoBlockFile(cache_address)) =>
          /\ pc' = "traverse"
          /\ result' = "none"
          /\ slot' = slot + 1
          /\ output' = output]_vars

\* the file starts, at offset 0, with a well-formed header of a data block
\* file or of an index file: the signature of the file type, version 2.0
\* or 2.1, and the header (for an index file the LRU data too) in full
WellFormedFile(file) ==
  /\ Len(file.data) >= 8
  /\ file.data[7] + 256 * file.data[8] = 2
  /\ file.data[5] + 256 * file.data[6] \in {0, 1}
  /\ \/ /\ SubSeq(file.data, 1, 4) = <<195, 202, 4, 193>>
        /\ file.size >= 8192
     \/ /\ SubSeq(file.data, 1, 4) = <<195, 202, 3, 193>>
        /\ file.size >= 256 + 112

\* C21: ParseFile on a file that starts with a well-formed data block file
\* header or index file header reads it without a ParseError: once the
\* signature has chosen the file type, the header is parsed from the start
\* of the file.
C21_ParseFileReadsHeader ==
  (returned # None /\ WellFormedFile(argument[1])) => returned = Some("ok")

====
